---- MODULE Spec2Model ----
(***************************************************************************)
(* A model of the GOG download glue of GameNative:                         *)
(*   - ApiHandler.get_secure_link  (gogdl/api.py), the bounded-retry       *)
(*     secure-link request;                                                *)
(*   - AndroidManager.download and AndroidManager.setup_download_manager   *)
(*     (gogdl/dl/managers/manager.py), the build resolution.               *)
(* Time is counted in tenths of a second, so 0.2 s is 2.                   *)
(***************************************************************************)
EXTENDS Integers, Sequences, FiniteSets, TLC

VARIABLES call, owned, endpoints, working_on_ids, mgr, parse, own

linkVars == <<call>>
apiVars == <<owned, endpoints, working_on_ids>>
mgrVars == <<mgr>>
parseVars == <<parse>>
ownVars == <<own>>
vars == <<call, owned, endpoints, working_on_ids, mgr, parse, own>>

----------------------------------------------------------------------------
(* Bounds of the exploration *)

\* largest max_retries argument a call is made with
MaxRetriesBound == 3
\* longest 'urls' list a response body carries
MaxUrls == 2
\* longest build list the content system answers with
MaxBuilds == 3
\* the same where generations and manifests vary
MaxDispatchBuilds == 2
\* number of leading bytes of a manifest file that vary
MaxBytes == 5
\* largest fileOffset, largest size and number of chunk parts of a file manifest
MaxOffset == 2
MaxSize == 2
MaxParts == 2
\* longest 'owned' list of the user data, and number of does_user_own calls
MaxOwned == 2
MaxCalls == 3
\* largest max_retries of the two concurrent callers
ConcMaxRetries == 2

----------------------------------------------------------------------------
(* Program constants *)

\* def get_secure_link(..., attempt=0, max_retries=3)
DefaultMaxRetries == 3
\* if response.status_code != 200
HTTP_OK == 200
\* sleep_time = 0.2 * (2 ** attempt), in tenths of a second
BackoffBase == 2
\* target_build.get("generation", 2)
DefaultGeneration == 2

----------------------------------------------------------------------------
(* Helpers *)

RECURSIVE Pow2(_)
Pow2(n) == IF n = 0 THEN 1 ELSE 2 * Pow2(n - 1)

RECURSIVE SumSeq(_)
SumSeq(s) == IF s = <<>> THEN 0 ELSE Head(s) + SumSeq(Tail(s))

Last(s) == s[Len(s)]

SeqsUpTo(S, n) == UNION {[1..k -> S] : k \in 0..n}

----------------------------------------------------------------------------
(* JSON values and HTTP outcomes seen by get_secure_link *)

\* Python None (argument not given, JSON null)
None == "None"

UrlStrings == {"https://cdn.example/a", "cdn.example/a?partial"}

JList(s) == [t |-> "list", v |-> s]
JNull == [t |-> "null", v |-> <<>>]
EmptyList == JList(<<>>)

UrlsValues == {JNull} \cup {JList(s) : s \in SeqsUpTo(UrlStrings, MaxUrls)}

\* A response body: bytes that are no JSON, a JSON document that is no
\* object (no .get), or an object with or without the 'urls' key.
BodyGarbage == [t |-> "garbage", has_urls |-> FALSE, urls |-> JNull]
BodyArray == [t |-> "array", has_urls |-> FALSE, urls |-> JNull]
BodyNoUrls == [t |-> "object", has_urls |-> FALSE, urls |-> JNull]
BodyUrls(u) == [t |-> "object", has_urls |-> TRUE, urls |-> u]

Bodies == {BodyGarbage, BodyArray, BodyNoUrls} \cup {BodyUrls(u) : u \in UrlsValues}

Statuses == {HTTP_OK, 404, 500}

\* What self.get_authenticated_request(url) does: raise, or return a response.
TransportError == [kind |-> "exc", status |-> 0, body |-> BodyGarbage]
Response(s, b) == [kind |-> "resp", status |-> s, body |-> b]

Outcomes ==
  {TransportError}
    \cup {Response(s, BodyGarbage) : s \in Statuses \ {HTTP_OK}}
    \cup {Response(HTTP_OK, b) : b \in Bodies}

----------------------------------------------------------------------------
(* ApiHandler.get_secure_link *)

Generations == {1, 2, 3}

Params ==
  [product_id : {"1207658924"}, path : {""}, generation : Generations,
   root : {None, "r"}, max_retries : 0..MaxRetriesBound]

NoResult == [t |-> "none", v |-> <<>>]

\* One invocation of get_secure_link by one caller: where it stands (pc), its
\* arguments, and what it has done so far (requests issued, their outcomes,
\* the sleeps completed).
IdleCall ==
  [pc |-> "idle",
   params |-> [product_id |-> "1207658924", path |-> "", generation |-> 2,
               root |-> None, max_retries |-> DefaultMaxRetries],
   attempt |-> 0, requests |-> 0, sleep_time |-> 0, sleeps |-> <<>>,
   hist |-> <<>>, result |-> NoResult]

\* if root:
Truthy(x) == x # None /\ x # ""

\* The URL of the request; its base is "" when generation is neither 1 nor 2.
BuildUrl(p) ==
  [base |-> IF p.generation = 2 THEN "secure_link?_version=2&generation=2"
            ELSE IF p.generation = 1 THEN "secure_link?_version=2&type=depot"
            ELSE "",
   product_id |-> p.product_id, path |-> p.path,
   root |-> IF Truthy(p.root) THEN p.root ELSE ""]

\* session.get of a URL with no scheme ("" or "&root=r") raises before any
\* response exists; any other URL may meet every outcome.
OutcomesFor(url) == IF url.base = "" THEN {TransportError} ELSE Outcomes

ExhaustedOffByOne(attempt, max_retries) == attempt > max_retries

\* if attempt >= max_retries
Exhausted(attempt, max_retries) == attempt >= max_retries

SleepTimeLinear(attempt) == BackoffBase * (attempt + 1)

SleepTimeShifted(attempt) == BackoffBase * Pow2(attempt + 1)

\* sleep_time = 0.2 * (2 ** attempt)
SleepTime(attempt) == BackoffBase * Pow2(attempt)

ReturnValueAfterSleep(c, v) ==
  [c EXCEPT !.pc = "done", !.result = v,
            !.sleeps = Append(@, BackoffBase * Pow2(c.attempt))]

\* return <value>
ReturnValue(c, v) == [c EXCEPT !.pc = "done", !.result = v]

\* sleep_time = ...; time.sleep(sleep_time); return self.get_secure_link(...)
Retry(c) == [c EXCEPT !.pc = "sleep", !.sleep_time = SleepTime(c.attempt)]

\* the branch of response.status_code != 200
OnBadStatus(c) == Retry(c)

OnExceptionNoBackoff(c) == [c EXCEPT !.pc = "sleep", !.sleep_time = 0]

OnExceptionPropagates(c) == [c EXCEPT !.pc = "raised"]

\* except Exception as e
OnException(c) == Retry(c)

\* response.json() raises on bytes that are no JSON; .get raises on a JSON
\* document that is no object
Decodable(body) == body.t = "object"

JsonGetUrlsNoDefault(body) == IF body.has_urls THEN body.urls ELSE JNull

\* response.json().get('urls', [])
JsonGetUrls(body) == IF body.has_urls THEN body.urls ELSE EmptyList

HandleOutcomeUndecodableIsEmpty(c, o) ==
  IF o.kind = "exc" THEN OnException(c)
  ELSE IF o.status # HTTP_OK THEN OnBadStatus(c)
  ELSE IF ~Decodable(o.body) THEN ReturnValue(c, EmptyList)
  ELSE ReturnValue(c, JsonGetUrls(o.body))

\* the try block: the request, the status check, the decoding
HandleOutcome(c, o) ==
  IF o.kind = "exc" THEN OnException(c)
  ELSE IF o.status # HTTP_OK THEN OnBadStatus(c)
  ELSE IF ~Decodable(o.body) THEN OnException(c)
  ELSE ReturnValue(c, JsonGetUrls(o.body))

\* A caller invokes api_handler.get_secure_link(product_id, path, generation,
\* root, max_retries=N) with attempt = 0.
Call(w, p) ==
  /\ call[w].pc = "idle"
  /\ call' = [call EXCEPT ![w] = [IdleCall EXCEPT !.pc = "entry", !.params = p]]
  /\ UNCHANGED <<apiVars, mgrVars, parseVars, ownVars>>

\* The entry check of an invocation with all attempts used: return [].
GiveUp(w) ==
  /\ call[w].pc = "entry"
  /\ Exhausted(call[w].attempt, call[w].params.max_retries)
  /\ call' = [call EXCEPT ![w] = ReturnValue(call[w], EmptyList)]
  /\ UNCHANGED <<apiVars, mgrVars, parseVars, ownVars>>

\* One attempt: the URL is built, the request is issued and its outcome o is
\* handled up to the return or up to the sleep.
Request(w, o) ==
  /\ call[w].pc = "entry"
  /\ ~Exhausted(call[w].attempt, call[w].params.max_retries)
  /\ o \in OutcomesFor(BuildUrl(call[w].params))
  /\ call' = [call EXCEPT ![w] =
                HandleOutcome([call[w] EXCEPT !.requests = @ + 1,
                                              !.hist = Append(@, o)], o)]
  /\ UNCHANGED <<apiVars, mgrVars, parseVars, ownVars>>

BackoffSharedAttempt(w) ==
  /\ call[w].pc = "sleep"
  /\ call' = [v \in DOMAIN call |->
                IF v = w
                  THEN [call[w] EXCEPT !.pc = "entry",
                                       !.sleeps = Append(@, call[w].sleep_time),
                                       !.sleep_time = 0,
                                       !.attempt = @ + 1]
                  ELSE [call[v] EXCEPT !.attempt = @ + 1]]
  /\ UNCHANGED <<apiVars, mgrVars, parseVars, ownVars>>

\* time.sleep(sleep_time) ends and the function calls itself with
\* attempt + 1 and the same other arguments.
Backoff(w) ==
  /\ call[w].pc = "sleep"
  /\ call' = [call EXCEPT ![w] =
                [call[w] EXCEPT !.pc = "entry",
                                !.sleeps = Append(@, call[w].sleep_time),
                                !.sleep_time = 0,
                                !.attempt = @ + 1]]
  /\ UNCHANGED <<apiVars, mgrVars, parseVars, ownVars>>

\* ApiHandler.__init__: self.owned = [], self.endpoints = dict(),
\* self.working_on_ids = list()
ApiInit ==
  /\ owned = <<>>
  /\ endpoints = <<>>
  /\ working_on_ids = <<>>

MgrUnused == [pc |-> "unused"]
ParseUnused == [pc |-> "unused"]
OwnUnused == [pc |-> "unused"]

InitLink ==
  /\ call = [w \in {1} |-> IdleCall]
  /\ ApiInit
  /\ mgr = MgrUnused
  /\ parse = ParseUnused
  /\ own = OwnUnused

NextLink ==
  \/ \E w \in DOMAIN call : \E p \in Params : Call(w, p)
  \/ \E w \in DOMAIN call : GiveUp(w)
  \/ \E w \in DOMAIN call : \E o \in Outcomes : Request(w, o)
  \/ \E w \in DOMAIN call : Backoff(w)

SpecLink == InitLink /\ [][NextLink]_vars

----------------------------------------------------------------------------
(* AndroidManager: build resolution and generation dispatch *)

\* A build descriptor of the builds response. branch is None for the
\* unlabeled branch; has_generation tells whether the 'generation' key is there.
Build(id, br, gen) ==
  [build_id |-> id, branch |-> br, has_generation |-> TRUE, generation |-> gen]

\* a build descriptor without the 'generation' key
BuildNoGeneration(id, br) ==
  [build_id |-> id, branch |-> br, has_generation |-> FALSE, generation |-> 0]

NoBuild == [build_id |-> None, branch |-> None, has_generation |-> FALSE, generation |-> 0]

\* The manager right after AndroidManager.__init__(arguments, ...), together
\* with what its environment holds: the answer of the builds endpoint (remote)
\* and the persisted manifest of the product (manifest).
NewManager(command, platform, branch, build, remote, manifest) ==
  [pc |-> "constructed",
   command |-> command,
   platform |-> platform,
   branch |-> branch,
   build |-> build,
   is_verifying |-> (command = "repair"),
   remote |-> remote,
   manifest |-> manifest,
   builds |-> <<>>,
   has_target |-> FALSE,
   target_build |-> NoBuild,
   manager |-> "none",
   constructed |-> 0,
   ctor_saw_target |-> FALSE,
   downloads |-> 0,
   logged |-> FALSE,
   error |-> "none"]

\* AndroidManager.get_builds: raises UnsupportedPlatform on a failed request
\* or on total_count == 0, and returns the decoded body otherwise.
GetBuildsRaises(remote) == ~remote.ok \/ remote.total_count = 0

RECURSIVE ScanBranchLast(_, _, _, _)
ScanBranchLast(items, i, branch, cur) ==
  IF i > Len(items) THEN cur
  ELSE ScanBranchLast(items, i + 1, branch,
                      IF items[i].branch = branch THEN items[i] ELSE cur)

\* for build in items: if build branch == branch: target_build = build; break
RECURSIVE ScanBranch(_, _, _, _)
ScanBranch(items, i, branch, cur) ==
  IF i > Len(items) THEN cur
  ELSE IF items[i].branch = branch THEN items[i]
  ELSE ScanBranch(items, i + 1, branch, cur)

RECURSIVE ScanBuildIdResetsOnMiss(_, _, _, _)
ScanBuildIdResetsOnMiss(items, i, build, cur) ==
  IF i > Len(items) THEN items[1]
  ELSE IF items[i].build_id = build THEN items[i]
  ELSE ScanBuildIdResetsOnMiss(items, i + 1, build, cur)

\* for build in items: if build build_id == arguments.build: target_build = build; break
RECURSIVE ScanBuildId(_, _, _, _)
ScanBuildId(items, i, build, cur) ==
  IF i > Len(items) THEN cur
  ELSE IF items[i].build_id = build THEN items[i]
  ELSE ScanBuildId(items, i + 1, build, cur)

ResolveDownloadBranchWins(items, branch, build) ==
  LET byBranch == ScanBranch(items, 1, branch, items[1]) IN
    IF Truthy(build) /\ byBranch.branch # branch
      THEN ScanBuildId(items, 1, build, byBranch)
      ELSE byBranch

\* AndroidManager.download: the default, the branch scan, the build id scan
ResolveDownload(items, branch, build) ==
  LET byBranch == ScanBranch(items, 1, branch, items[1]) IN
    IF Truthy(build) THEN ScanBuildId(items, 1, build, byBranch) ELSE byBranch

ResolveSetupGuardedBranchScan(items, branch, build) ==
  LET byBranch == IF branch = None THEN items[1]
                  ELSE ScanBranch(items, 1, branch, items[1])
  IN  IF Truthy(build) THEN ScanBuildId(items, 1, build, byBranch) ELSE byBranch

\* AndroidManager.setup_download_manager: the default, the scan for a None
\* branch, the branch scan, the build id scan
ResolveSetup(items, branch, build) ==
  LET byNull == ScanBranch(items, 1, None, items[1])
      byBranch == ScanBranch(items, 1, branch, byNull)
  IN  IF Truthy(build) THEN ScanBuildId(items, 1, build, byBranch) ELSE byBranch

RaiseSwallowed(m, e) == [m EXCEPT !.pc = "returned", !.logged = TRUE, !.error = e]

\* an exception leaves the method through its handler:
\* except Exception as e: self.logger.error(...); raise
Raise(m, e) == [m EXCEPT !.pc = "raised", !.logged = TRUE, !.error = e]

\* self.logger.error(...); exit(1)
Exit(m) == [m EXCEPT !.pc = "exited", !.logged = TRUE, !.error = "SystemExit"]

DispatchDefaultsToV2(m, generation, invoke) ==
  [m EXCEPT !.pc = "returned",
            !.manager = IF generation = 1 THEN "v1" ELSE "v2",
            !.constructed = @ + 1,
            !.ctor_saw_target = m.has_target /\ m.builds = m.remote.items,
            !.downloads = IF invoke THEN @ + 1 ELSE @]

DispatchSwapped(m, generation, invoke) ==
  IF generation \in {1, 2}
    THEN [m EXCEPT !.pc = "returned",
                   !.manager = IF generation = 1 THEN "v2" ELSE "v1",
                   !.constructed = @ + 1,
                   !.ctor_saw_target = m.has_target /\ m.builds = m.remote.items,
                   !.downloads = IF invoke THEN @ + 1 ELSE @]
    ELSE Raise(m, "Unsupported generation")

\* the choice of the manager class by generation, and what follows it: the
\* manager is constructed on self (it reads self.builds and self.target_build
\* as they are then), and download() runs manager.download()
Dispatch(m, generation, invoke) ==
  IF generation \in {1, 2}
    THEN [m EXCEPT !.pc = "returned",
                   !.manager = IF generation = 1 THEN "v1" ELSE "v2",
                   !.constructed = @ + 1,
                   !.ctor_saw_target = m.has_target /\ m.builds = m.remote.items,
                   !.downloads = IF invoke THEN @ + 1 ELSE @]
    ELSE Raise(m, "Unsupported generation")

DownloadOfDefaultsOnEmpty(m) ==
  IF m.platform = "linux"
    THEN [m EXCEPT !.pc = "returned", !.manager = "linux", !.constructed = @ + 1,
                 !.downloads = @ + 1]
  ELSE IF GetBuildsRaises(m.remote) THEN Raise(m, "UnsupportedPlatform")
  ELSE LET target == IF Len(m.remote.items) = 0 THEN NoBuild
                     ELSE ResolveDownload(m.remote.items, m.branch, m.build)
           m1 == [m EXCEPT !.builds = m.remote.items,
                           !.has_target = Len(m.remote.items) > 0,
                           !.target_build = target]
           generation == IF target.has_generation THEN target.generation
                         ELSE DefaultGeneration
       IN  Dispatch(m1, generation, TRUE)

\* AndroidManager.download, from its first line to its return or raise
DownloadOf(m) ==
  IF m.platform = "linux"
    THEN [m EXCEPT !.pc = "returned", !.manager = "linux", !.constructed = @ + 1,
                 !.downloads = @ + 1]
  ELSE IF GetBuildsRaises(m.remote) THEN Raise(m, "UnsupportedPlatform")
  ELSE IF Len(m.remote.items) = 0 THEN Raise(m, "No builds found")
  ELSE LET target == ResolveDownload(m.remote.items, m.branch, m.build)
           m1 == [m EXCEPT !.builds = m.remote.items,
                           !.has_target = TRUE,
                           !.target_build = target]
           generation == IF target.has_generation THEN target.generation
                         ELSE DefaultGeneration
       IN  Dispatch(m1, generation, TRUE)

\* generation = int(manifest_data['version']) when verifying and the manifest
\* file exists
SetupGeneration(m, target) ==
  IF m.is_verifying /\ m.manifest.exists THEN m.manifest.version
  ELSE target.generation

\* AndroidManager.setup_download_manager, from its first line to its return,
\* raise or exit
SetupOf(m) ==
  IF m.platform = "linux"
    THEN [m EXCEPT !.pc = "returned", !.manager = "linux", !.constructed = @ + 1]
  ELSE IF GetBuildsRaises(m.remote) THEN Exit(m)
  ELSE LET m0 == [m EXCEPT !.builds = m.remote.items] IN
    IF Len(m.remote.items) = 0 THEN Exit(m0)
    ELSE LET target == ResolveSetup(m.remote.items, m.branch, m.build)
             m1 == [m0 EXCEPT !.has_target = TRUE, !.target_build = target]
         IN  IF ~target.has_generation THEN Raise(m1, "KeyError")
             ELSE Dispatch(m1, SetupGeneration(m1, target), FALSE)

\* cli.main runs download_manager.download for download, repair and update
Download ==
  /\ mgr.pc = "constructed"
  /\ mgr.command \in {"download", "repair", "update"}
  /\ mgr' = DownloadOf(mgr)
  /\ UNCHANGED <<linkVars, apiVars, parseVars, ownVars>>

\* cli.main runs calculate_download_size for info, which starts with
\* setup_download_manager and re-raises what it raises
CalculateDownloadSize ==
  /\ mgr.pc = "constructed"
  /\ mgr.command = "info"
  /\ mgr' = SetupOf(mgr)
  /\ UNCHANGED <<linkVars, apiVars, parseVars, ownVars>>

BuildIds == {"A", "B", "C"}
Branches == {None, "beta"}

BuildLists(gens, n) ==
  SeqsUpTo({Build(id, br, g) : id \in BuildIds, br \in Branches, g \in gens}, n)

BuildsResponse(items) == [ok |-> TRUE, total_count |-> Len(items), items |-> items]
FailedResponse == [ok |-> FALSE, total_count |-> 0, items |-> <<>>]
\* a body that counts builds and lists none
EmptyItemsResponse == [ok |-> TRUE, total_count |-> 1, items |-> <<>>]

NoManifest == [exists |-> FALSE, version |-> 0]

\* the values of --branch and of --build
BranchArgs == {None, "beta", "rc"}
BuildArgs == {None, "", "A", "B", "C", "Z"}

InitResolve ==
  /\ call = [w \in {1} |-> IdleCall]
  /\ ApiInit
  /\ parse = ParseUnused
  /\ own = OwnUnused
  /\ \E command \in {"download", "info"}, branch \in BranchArgs, build \in BuildArgs :
       \E remote \in {FailedResponse, EmptyItemsResponse} \cup
                     {BuildsResponse(items) : items \in BuildLists({1, 2}, MaxBuilds)} :
         mgr = NewManager(command, "windows", branch, build, remote, NoManifest)

NextResolve ==
  \/ Download
  \/ CalculateDownloadSize

SpecResolve == InitResolve /\ [][NextResolve]_vars

\* Generation dispatch: every command cli.main hands to AndroidManager, both
\* platforms, builds of generation 1, 2, 3 or without the key, and a persisted
\* manifest of version 1, 2 or 3 or none.
DispatchBuilds ==
  {Build(id, br, g) : id \in {"A", "B"}, br \in Branches, g \in {1, 2, 3}}
    \cup {BuildNoGeneration(id, br) : id \in {"A", "B"}, br \in Branches}

\* the file MANIFESTS_DIR/<game id>, with the integer its 'version' converts to
Manifests == {NoManifest} \cup {[exists |-> TRUE, version |-> v] : v \in {1, 2, 3}}

InitDispatch ==
  /\ call = [w \in {1} |-> IdleCall]
  /\ ApiInit
  /\ parse = ParseUnused
  /\ own = OwnUnused
  /\ \E command \in {"download", "repair", "info"}, platform \in {"windows", "linux"},
        branch \in {None, "beta"}, build \in {None, "B"}, manifest \in Manifests :
       \E remote \in {FailedResponse, EmptyItemsResponse} \cup
                     {BuildsResponse(items) : items \in SeqsUpTo(DispatchBuilds, MaxDispatchBuilds)} :
         mgr = NewManager(command, platform, branch, build, remote, manifest)

NextDispatch ==
  \/ Download
  \/ CalculateDownloadSize

SpecDispatch == InitDispatch /\ [][NextDispatch]_vars

----------------------------------------------------------------------------
(* parse_and_serialize: manifest format detection, decoding, serialization *)

\* b'\x0c\xc0\xbe\x44'
ManifestMagic == <<12, 192, 190, 68>>

\* the bytes a file starts with are drawn from the magic's four and '{'
Bytes == {12, 192, 190, 68, 123}

\* s[:n]
Take(s, n) == SubSeq(s, 1, IF Len(s) < n THEN Len(s) ELSE n)

IsBinaryManifestReversed(bytes) == Take(bytes, 4) = <<68, 190, 192, 12>>

\* data[:4] == b'\x0c\xc0\xbe\x44'
IsBinaryManifest(bytes) == Take(bytes, 4) = ManifestMagic

\* A manifest file: the bytes it starts with, and the file manifests the
\* rest of it describes, each [fileSize, chunkParts], a chunk part being
\* [fileOffset, size].
ChunkParts == [fileOffset : 0..MaxOffset, size : 1..MaxSize]
FileManifests ==
  [fileSize : 0..(MaxOffset + MaxSize), chunkParts : SeqsUpTo(ChunkParts, MaxParts)]

RECURSIVE InsertByOffset(_, _)
InsertByOffset(sorted, part) ==
  IF sorted = <<>> THEN <<part>>
  ELSE IF part.fileOffset < Head(sorted).fileOffset THEN <<part>> \o sorted
  ELSE <<Head(sorted)>> \o InsertByOffset(Tail(sorted), part)

RECURSIVE SortByOffset(_)
SortByOffset(parts) ==
  IF parts = <<>> THEN <<>>
  ELSE InsertByOffset(SortByOffset(Tail(parts)), Head(parts))

RECURSIVE SumSizes(_)
SumSizes(parts) == IF parts = <<>> THEN 0 ELSE Head(parts).size + SumSizes(Tail(parts))

\* the chunk parts, ordered by fileOffset, are gap-free from 0 and their
\* sizes add up to fileSize
ValidFile(fm) ==
  LET sorted == SortByOffset(fm.chunkParts) IN
    /\ \A i \in DOMAIN sorted :
         sorted[i].fileOffset = SumSizes(SubSeq(sorted, 1, i - 1))
    /\ SumSizes(sorted) = fm.fileSize

\* the validator both decoders end with
ValidateManifest(files) == \A i \in DOMAIN files : ValidFile(files[i])

\* Manifest.read_all(data): the manifest, or a DecodeError
ManifestReadAll(data) == [ok |-> ValidateManifest(data.files), files |-> data.files]

\* JSONManifest.read_all(data): the same for a UTF-8 JSON document, which
\* starts with '{'
JSONManifestReadAll(data) ==
  [ok |-> /\ data.bytes # <<>>
          /\ Head(data.bytes) = 123
          /\ ValidateManifest(data.files),
   files |-> data.files]

RECURSIVE SumFileSizes(_)
SumFileSizes(files) ==
  IF files = <<>> THEN 0 ELSE Head(files).fileSize + SumFileSizes(Tail(files))

\* create_manifest_summary
CreateManifestSummary(files) ==
  [kind |-> "summary", totalFiles |-> Len(files),
   installedSize |-> SumFileSizes(files), files |-> <<>>]

\* serialize_manifest
SerializeManifest(files) ==
  [kind |-> "full", totalFiles |-> Len(files), installedSize |-> 0, files |-> files]

NoOutput == [kind |-> "none", totalFiles |-> 0, installedSize |-> 0, files |-> <<>>]

NewParse(data, output_format) ==
  [pc |-> "ready", data |-> data, output_format |-> output_format,
   binary_calls |-> 0, json_calls |-> 0, manifest |-> <<>>, output |-> NoOutput]

ParseOfKeepsRejected(p) ==
  LET binary == IsBinaryManifest(p.data.bytes)
      r == IF binary THEN ManifestReadAll(p.data) ELSE JSONManifestReadAll(p.data)
  IN  [p EXCEPT !.binary_calls = IF binary THEN @ + 1 ELSE @,
                !.json_calls = IF binary THEN @ ELSE @ + 1,
                !.pc = "returned",
                !.manifest = r.files,
                !.output = IF p.output_format = "summary"
                             THEN CreateManifestSummary(r.files)
                             ELSE SerializeManifest(r.files)]

\* parse_and_serialize(manifest_path, output_format), from the read of the
\* file to the return, or to the error of the decoder it called
ParseOf(p) ==
  LET binary == IsBinaryManifest(p.data.bytes)
      r == IF binary THEN ManifestReadAll(p.data) ELSE JSONManifestReadAll(p.data)
      p1 == [p EXCEPT !.binary_calls = IF binary THEN @ + 1 ELSE @,
                      !.json_calls = IF binary THEN @ ELSE @ + 1]
  IN  IF ~r.ok THEN [p1 EXCEPT !.pc = "raised"]
      ELSE [p1 EXCEPT !.pc = "returned",
                      !.manifest = r.files,
                      !.output = IF p.output_format = "summary"
                                   THEN CreateManifestSummary(r.files)
                                   ELSE SerializeManifest(r.files)]

ParseAndSerialize ==
  /\ parse.pc = "ready"
  /\ parse' = ParseOf(parse)
  /\ UNCHANGED <<linkVars, apiVars, mgrVars, ownVars>>

GoodFile == [fileSize |-> 2, chunkParts |-> <<[fileOffset |-> 1, size |-> 1], [fileOffset |-> 0, size |-> 1]>>]
GappedFile == [fileSize |-> 2, chunkParts |-> <<[fileOffset |-> 1, size |-> 1]>>]

\* Format detection: every short sequence of leading bytes, before a valid
\* and before an invalid manifest body.
InitDetect ==
  /\ call = [w \in {1} |-> IdleCall]
  /\ ApiInit
  /\ mgr = MgrUnused
  /\ own = OwnUnused
  /\ \E bytes \in SeqsUpTo(Bytes, MaxBytes), files \in {<<>>, <<GoodFile>>, <<GappedFile>>},
        output_format \in {"full", "summary"} :
       parse = NewParse([bytes |-> bytes, files |-> files], output_format)

NextDetect == ParseAndSerialize

SpecDetect == InitDetect /\ [][NextDetect]_vars

\* Decoding: a binary and a JSON file, each describing one file manifest of
\* every shape, alone or beside a second one.
InitDecode ==
  /\ call = [w \in {1} |-> IdleCall]
  /\ ApiInit
  /\ mgr = MgrUnused
  /\ own = OwnUnused
  /\ \E bytes \in {ManifestMagic, <<123>>}, fm \in FileManifests,
        rest \in {<<>>, <<GoodFile>>, <<GappedFile>>},
        output_format \in {"full", "summary"} :
       parse = NewParse([bytes |-> bytes, files |-> <<fm>> \o rest], output_format)

NextDecode == ParseAndSerialize

SpecDecode == InitDecode /\ [][NextDecode]_vars

----------------------------------------------------------------------------
(* Properties of get_secure_link, checked under SpecLink *)

IsTransportError(o) == o.kind = "exc"
IsBadStatus(o) == o.kind = "resp" /\ o.status # HTTP_OK
IsUndecodable(o) == o.kind = "resp" /\ o.status = HTTP_OK /\ o.body.t # "object"
IsSuccess(o) == o.kind = "resp" /\ o.status = HTTP_OK /\ o.body.t = "object"
Retryable(o) == IsBadStatus(o) \/ IsTransportError(o)
Failed(o) == ~IsSuccess(o)
AllOf(h, P(_)) == \A i \in DOMAIN h : P(h[i])
SomeOf(h, P(_)) == \E i \in DOMAIN h : P(h[i])

\* C1: with max_retries = N and every attempt failing by a non-200 status or a
\* transport exception, no more than N requests are ever issued, and the call
\* ends after exactly N requests with the empty list (N = 3 by default: no
\* 4th request).
C1_ExactlyNRequests ==
  \A w \in DOMAIN call :
    LET c == call[w]
        N == c.params.max_retries
    IN  AllOf(c.hist, Retryable) =>
          /\ c.requests = Len(c.hist)
          /\ c.requests <= N
          /\ c.pc = "done" => /\ c.requests = N
                              /\ c.result = EmptyList

C1_Witness ==
  \E w \in DOMAIN call :
    /\ call[w].pc = "done"
    /\ call[w].params.max_retries = DefaultMaxRetries
    /\ call[w].requests = 3
    /\ AllOf(call[w].hist, IsBadStatus)
    /\ call[w].result = EmptyList

\* C2 as stated: the sleep that precedes attempt n lasts 0.2 x 2^n seconds.
C2_DelayBeforeAttemptN ==
  \A w \in DOMAIN call :
    LET c == call[w] IN
      (/\ c.pc = "entry"
       /\ c.attempt < c.params.max_retries
       /\ c.sleeps # <<>>)
        => Last(c.sleeps) = BackoffBase * Pow2(c.attempt)

\* C2 as amended: the sleep that follows failed attempt n lasts 0.2 x 2^n
\* seconds and is over before attempt n + 1 is issued; nothing is slept
\* before attempt 0.
C2_BackoffAfterFailedAttempt ==
  \A w \in DOMAIN call :
    LET c == call[w] IN
      /\ \A i \in DOMAIN c.sleeps : c.sleeps[i] = BackoffBase * Pow2(i - 1)
      /\ c.pc = "sleep" => /\ c.sleep_time = BackoffBase * Pow2(c.attempt)
                           /\ Len(c.hist) = c.attempt + 1
      /\ c.pc \in {"entry", "sleep"} => Len(c.sleeps) = c.attempt
      /\ c.pc = "entry" => Len(c.hist) = c.attempt
      /\ Len(c.hist) <= Len(c.sleeps) + 1

C2_Witness ==
  \E w \in DOMAIN call :
    /\ call[w].pc = "entry"
    /\ call[w].attempt = 2
    /\ call[w].params.max_retries = DefaultMaxRetries
    /\ call[w].sleeps = <<2, 4>>

\* C3: N consecutive failures with max_retries = N sleep 0.2 x (2^N - 1)
\* seconds in all before the empty list is returned: 1.4 s for N = 3.
C3_TotalBackoff ==
  \A w \in DOMAIN call :
    LET c == call[w]
        N == c.params.max_retries
    IN  (c.pc = "done" /\ Len(c.hist) = N /\ AllOf(c.hist, Failed)) =>
          /\ c.result = EmptyList
          /\ SumSeq(c.sleeps) = BackoffBase * (Pow2(N) - 1)
          /\ N = 3 => SumSeq(c.sleeps) = 14

C3_Witness ==
  \E w \in DOMAIN call :
    /\ call[w].pc = "done"
    /\ call[w].params.max_retries = 3
    /\ Len(call[w].hist) = 3
    /\ AllOf(call[w].hist, Failed)
    /\ SumSeq(call[w].sleeps) = 14

\* C4: an attempt that ends in a non-200 status and one that ends in a
\* transport exception change the call in the same way (one request counted,
\* the backoff of that attempt index pending); the sleep is followed by the
\* next attempt index with the same arguments; a call whose attempts all
\* failed in either way returns the empty list.
C4_StatusAndExceptionAlike ==
  [][\A w \in DOMAIN call :
       LET c == call[w]
           d == call'[w]
       IN  /\ (Len(d.hist) = Len(c.hist) + 1 /\ Retryable(Last(d.hist))) =>
                d = [c EXCEPT !.pc = "sleep",
                              !.requests = @ + 1,
                              !.hist = d.hist,
                              !.sleep_time = BackoffBase * Pow2(c.attempt)]
           /\ (c.pc = "sleep" /\ d # c) =>
                d = [c EXCEPT !.pc = "entry",
                              !.attempt = @ + 1,
                              !.sleeps = Append(@, BackoffBase * Pow2(c.attempt)),
                              !.sleep_time = 0]
           /\ (c.pc # "done" /\ d.pc = "done" /\ AllOf(d.hist, Retryable)) =>
                /\ Len(d.hist) = d.params.max_retries
                /\ d.result = EmptyList
    ]_vars

C4_Witness ==
  \E w \in DOMAIN call :
    /\ call[w].pc = "done"
    /\ call[w].result = EmptyList
    /\ SomeOf(call[w].hist, IsBadStatus)
    /\ SomeOf(call[w].hist, IsTransportError)
    /\ AllOf(call[w].hist, Retryable)

\* C5: whatever the outcomes and the generation, the call never ends in an
\* exception: until it has returned it can always take a step, it takes at
\* most 2 x max_retries + 1 of them, it returns a value, and that value is the
\* empty list when the last attempt failed (or none was allowed).
C5_NeverPropagates ==
  \A w \in DOMAIN call :
    LET c == call[w]
        N == c.params.max_retries
    IN  /\ c.pc # "raised"
        /\ c.pc \in {"entry", "sleep"} =>
             ENABLED (GiveUp(w) \/ (\E o \in Outcomes : Request(w, o)) \/ Backoff(w))
        /\ c.requests <= N /\ Len(c.sleeps) <= N
        /\ c.pc = "done" => c.result # NoResult
        /\ (c.pc = "done" /\ (c.hist = <<>> \/ Failed(Last(c.hist)))) =>
             c.result = EmptyList

C5_Witness ==
  \E w \in DOMAIN call :
    /\ call[w].pc = "done"
    /\ call[w].result = EmptyList
    /\ SomeOf(call[w].hist, IsUndecodable)
    /\ SomeOf(call[w].hist, IsTransportError)
    /\ SomeOf(call[w].hist, IsBadStatus)

\* C6: a 200 response whose JSON object has no 'urls' key ends the call at
\* once with the empty list: it is the last request, and no sleep follows it.
C6_MissingUrlsIsEmptyList ==
  \A w \in DOMAIN call :
    LET c == call[w] IN
      \A i \in DOMAIN c.hist :
        c.hist[i] = Response(HTTP_OK, BodyNoUrls) =>
          /\ i = Len(c.hist)
          /\ c.pc = "done"
          /\ c.result = EmptyList
          /\ c.requests = i
          /\ Len(c.sleeps) = i - 1
          /\ c.sleep_time = 0

C6_Witness ==
  \E w \in DOMAIN call :
    /\ call[w].pc = "done"
    /\ Len(call[w].hist) = 2
    /\ Last(call[w].hist) = Response(HTTP_OK, BodyNoUrls)
    /\ call[w].result = EmptyList

WellFormedUrls == {"https://cdn.example/a"}

\* C7: every element of the sequence the call returns is a well-formed URL,
\* whatever the 'urls' field of the 200 response holds.
C7_OnlyWellFormedUrls ==
  \A w \in DOMAIN call :
    call[w].pc = "done" =>
      \A i \in DOMAIN call[w].result.v : call[w].result.v[i] \in WellFormedUrls

----------------------------------------------------------------------------
(* Properties of build resolution, checked under SpecResolve *)

\* i is the first index of items whose build satisfies P
IsFirst(items, i, P(_)) ==
  /\ i \in DOMAIN items
  /\ P(items[i])
  /\ \A j \in 1..(i - 1) : ~P(items[j])

HasBuildId(id) == \E i \in DOMAIN mgr.remote.items : mgr.remote.items[i].build_id = id
HasBranch(br) == \E i \in DOMAIN mgr.remote.items : mgr.remote.items[i].branch = br
BuildIdGiven == mgr.build # None /\ mgr.build # ""

SpecExampleBuilds == <<Build("A", None, 2), Build("B", "beta", 2), Build("C", "beta", 1)>>

\* C8: in download and in setup_download_manager, when a build id is given
\* and some build of the list has it, the target is the first such build,
\* whatever the branch selector and the branches of the builds are.
C8_ExplicitBuildIdWins ==
  (mgr.has_target /\ BuildIdGiven /\ HasBuildId(mgr.build)) =>
    \E i \in DOMAIN mgr.remote.items :
      /\ IsFirst(mgr.remote.items, i, LAMBDA b : b.build_id = mgr.build)
      /\ mgr.target_build = mgr.remote.items[i]

C8_Witness ==
  /\ mgr.command = "download"
  /\ mgr.pc = "returned"
  /\ mgr.remote.items = SpecExampleBuilds
  /\ mgr.branch = "beta"
  /\ mgr.build = "C"
  /\ mgr.target_build = Build("C", "beta", 1)

\* C9: when a branch is given, no given build id matches and some build has
\* that branch, the target is the first build of the list with that branch.
C9_FirstBranchMatch ==
  (/\ mgr.has_target
   /\ mgr.branch # None
   /\ ~(BuildIdGiven /\ HasBuildId(mgr.build))
   /\ HasBranch(mgr.branch)) =>
    \E i \in DOMAIN mgr.remote.items :
      /\ IsFirst(mgr.remote.items, i, LAMBDA b : b.branch = mgr.branch)
      /\ mgr.target_build = mgr.remote.items[i]

C9_Witness ==
  /\ mgr.command = "info"
  /\ mgr.pc = "returned"
  /\ mgr.remote.items = SpecExampleBuilds
  /\ mgr.branch = "beta"
  /\ mgr.build = None
  /\ mgr.target_build = Build("B", "beta", 2)

\* C10: with no branch and no build id given, the target is the first build
\* whose branch is None, wherever it stands, and the first build of the list
\* when no build has a None branch.
C10_EmptySelectorPrefersNullBranch ==
  (mgr.has_target /\ mgr.branch = None /\ ~BuildIdGiven) =>
    IF HasBranch(None)
      THEN \E i \in DOMAIN mgr.remote.items :
             /\ IsFirst(mgr.remote.items, i, LAMBDA b : b.branch = None)
             /\ mgr.target_build = mgr.remote.items[i]
      ELSE mgr.target_build = mgr.remote.items[1]

C10_Witness ==
  /\ mgr.command = "info"
  /\ mgr.pc = "returned"
  /\ mgr.remote.items = <<Build("B", "beta", 2), Build("C", "beta", 2), Build("A", None, 2)>>
  /\ mgr.branch = None
  /\ mgr.build = None
  /\ mgr.target_build = Build("A", None, 2)

\* C11: when a branch is given that no build has, and no given build id
\* matches, the target is the first build whose branch is None if there is
\* one, in download as in setup_download_manager.
C11_NullBranchBeatsFirst ==
  (/\ mgr.has_target
   /\ mgr.branch # None
   /\ ~HasBranch(mgr.branch)
   /\ ~(BuildIdGiven /\ HasBuildId(mgr.build))
   /\ HasBranch(None)) =>
    \E i \in DOMAIN mgr.remote.items :
      /\ IsFirst(mgr.remote.items, i, LAMBDA b : b.branch = None)
      /\ mgr.target_build = mgr.remote.items[i]

----------------------------------------------------------------------------
(* Properties of the generation dispatch, checked under SpecDispatch *)

Finished == mgr.pc \in {"returned", "raised", "exited"}
ZeroItems == mgr.remote.ok /\ Len(mgr.remote.items) = 0

\* C12: a repair of a product that has a persisted manifest chooses the
\* manager by the version recorded in that manifest, whatever generation the
\* builds response reports.
C12_RepairUsesManifestGeneration ==
  (/\ mgr.command = "repair"
   /\ mgr.platform # "linux"
   /\ mgr.manifest.exists
   /\ mgr.has_target
   /\ Finished) =>
    /\ mgr.manifest.version = 1 => mgr.manager = "v1"
    /\ mgr.manifest.version = 2 => mgr.manager = "v2"
    /\ mgr.manifest.version \notin {1, 2} => mgr.manager = "none"

\* C13: when the builds response lists zero items nothing is resolved:
\* download raises, setup_download_manager exits, no target build is set and
\* no manager is constructed or has download() invoked.
C13_NoBuildsFails ==
  (Finished /\ mgr.platform # "linux" /\ ZeroItems) =>
    /\ mgr.command \in {"download", "repair"} => mgr.pc = "raised"
    /\ mgr.command = "info" => mgr.pc = "exited"
    /\ mgr.error # "none"
    /\ ~mgr.has_target
    /\ mgr.target_build = NoBuild
    /\ mgr.manager = "none"
    /\ mgr.downloads = 0

C13_Witness ==
  /\ mgr.command = "download"
  /\ mgr.remote = EmptyItemsResponse
  /\ mgr.pc = "raised"
  /\ mgr.error = "No builds found"
  /\ mgr.manager = "none"

\* the generation each method dispatches on: download takes the target's, 2
\* when the key is missing; setup_download_manager takes the target's, or the
\* version of the persisted manifest when it verifies and the manifest exists
FinalGeneration ==
  IF mgr.command = "info"
    THEN IF mgr.is_verifying /\ mgr.manifest.exists THEN mgr.manifest.version
         ELSE mgr.target_build.generation
    ELSE IF mgr.target_build.has_generation THEN mgr.target_build.generation
         ELSE 2

ResolutionFails ==
  \/ ~mgr.remote.ok
  \/ mgr.remote.total_count = 0
  \/ Len(mgr.remote.items) = 0
  \/ mgr.has_target /\ FinalGeneration \notin {1, 2}

\* C15: whenever download() fails to resolve a build (the builds request
\* fails, the list is empty, the generation is unsupported) the error is
\* logged and re-raised to the caller, and manager.download() is not invoked.
C15_ResolverErrorsSurface ==
  (/\ Finished
   /\ mgr.command \in {"download", "repair"}
   /\ mgr.platform # "linux"
   /\ ResolutionFails) =>
    /\ mgr.pc = "raised"
    /\ mgr.error # "none"
    /\ mgr.logged
    /\ mgr.downloads = 0

C15_Witness ==
  /\ mgr.command = "repair"
  /\ mgr.platform = "windows"
  /\ mgr.remote = FailedResponse
  /\ mgr.pc = "raised"
  /\ mgr.error = "UnsupportedPlatform"
  /\ mgr.logged

----------------------------------------------------------------------------
(* Properties of parse_and_serialize, checked under SpecDetect and SpecDecode *)

ParseDone == parse.pc \in {"returned", "raised"}

StartsWithMagic ==
  /\ Len(parse.data.bytes) >= 4
  /\ parse.data.bytes[1] = 12
  /\ parse.data.bytes[2] = 192
  /\ parse.data.bytes[3] = 190
  /\ parse.data.bytes[4] = 68

\* C16: a file whose first four bytes are 0C C0 BE 44 goes to the binary
\* decoder whatever follows, any other file (shorter than four bytes
\* included) goes to the JSON decoder; one decoder is invoked per file, and
\* neither the body nor the output format changes the choice.
C16_FormatDetection ==
  /\ parse.pc = "ready" => parse.binary_calls = 0 /\ parse.json_calls = 0
  /\ ParseDone =>
       /\ parse.binary_calls + parse.json_calls = 1
       /\ parse.binary_calls = 1 <=> StartsWithMagic

C16_Witness ==
  /\ ParseDone
  /\ parse.data.bytes = <<12, 192, 190, 68, 123>>
  /\ parse.data.files = <<GappedFile>>
  /\ parse.binary_calls = 1
  /\ parse.json_calls = 0

\* the orders in which n chunk parts can be listed
Orders(n) == {f \in [1..n -> 1..n] : \A i, j \in 1..n : f[i] = f[j] => i = j}

\* fm's chunk parts, put in the order of their fileOffset, start at 0, leave
\* no gap, and their sizes add up to fileSize
GapFree(fm) ==
  LET parts == fm.chunkParts
      n == Len(parts)
  IN  \E f \in Orders(n) :
        /\ \A i \in 1..n :
             parts[f[i]].fileOffset =
               IF i = 1 THEN 0
               ELSE parts[f[i - 1]].fileOffset + parts[f[i - 1]].size
        /\ fm.fileSize = IF n = 0 THEN 0
                         ELSE parts[f[n]].fileOffset + parts[f[n]].size

----------------------------------------------------------------------------
(* ApiHandler.does_user_own *)

\* A game id as Python holds it: an int or a str, with the text str() gives.
GameId(t, s) == [t |-> t, s |-> s]
GameIds == {GameId("int", "1"), GameId("str", "1"), GameId("str", "2")}

\* str(g)
Str(g) == GameId("str", g.s)

\* [str(g) for g in list]
StrAll(list) == [i \in DOMAIN list |-> Str(list[i])]

\* What self.get_user_data() does: raise (the request or response.json()
\* fails), return None (response not ok), or return the decoded body, which
\* is an empty or non-empty dict with or without 'owned', whose value is a
\* list or null.
UserDataRaises == [kind |-> "exc", truthy |-> FALSE, has_owned |-> FALSE, iterable |-> FALSE, owned |-> <<>>]
UserDataNone == [kind |-> "none", truthy |-> FALSE, has_owned |-> FALSE, iterable |-> FALSE, owned |-> <<>>]
UserDataEmpty == [kind |-> "data", truthy |-> FALSE, has_owned |-> FALSE, iterable |-> FALSE, owned |-> <<>>]
UserDataNoOwned == [kind |-> "data", truthy |-> TRUE, has_owned |-> FALSE, iterable |-> FALSE, owned |-> <<>>]
UserDataOwnedNull == [kind |-> "data", truthy |-> TRUE, has_owned |-> TRUE, iterable |-> FALSE, owned |-> <<>>]
UserDataOwned(list) == [kind |-> "data", truthy |-> TRUE, has_owned |-> TRUE, iterable |-> TRUE, owned |-> list]
\* no request is made
NoUserDataRequest == [kind |-> "no_request", truthy |-> FALSE, has_owned |-> FALSE, iterable |-> FALSE, owned |-> <<>>]

UserDataOutcomes ==
  {UserDataRaises, UserDataNone, UserDataEmpty, UserDataNoOwned, UserDataOwnedNull}
    \cup {UserDataOwned(list) : list \in SeqsUpTo(GameIds, MaxOwned)}

InList(x, list) == \E i \in DOMAIN list : list[i] = x

DoesUserOwnOfFailClosed(ownedNow, game_id, o) ==
  IF ownedNow # <<>>
    THEN [owned |-> ownedNow, result |-> InList(Str(game_id), StrAll(ownedNow)),
          requested |-> FALSE]
  ELSE IF o.kind = "data" /\ o.truthy /\ o.has_owned /\ o.iterable
    THEN [owned |-> StrAll(o.owned), result |-> InList(Str(game_id), StrAll(o.owned)),
          requested |-> TRUE]
  ELSE [owned |-> ownedNow, result |-> FALSE, requested |-> TRUE]

DoesUserOwnOfAlwaysFetches(ownedNow, game_id, o) ==
  IF o.kind = "data" /\ o.truthy /\ o.has_owned /\ o.iterable
    THEN [owned |-> StrAll(o.owned), result |-> InList(Str(game_id), StrAll(o.owned)),
          requested |-> TRUE]
  ELSE [owned |-> ownedNow,
        result |-> ownedNow = <<>> \/ InList(Str(game_id), StrAll(ownedNow)),
        requested |-> TRUE]

\* does_user_own(game_id) with self.owned = ownedNow and, when it asks, the
\* outcome o of get_user_data: the new self.owned, the value returned, and
\* whether the request was made
DoesUserOwnOf(ownedNow, game_id, o) ==
  IF ownedNow # <<>>
    THEN [owned |-> ownedNow, result |-> InList(Str(game_id), StrAll(ownedNow)),
          requested |-> FALSE]
  ELSE IF o.kind = "data" /\ o.truthy /\ o.has_owned /\ o.iterable
    THEN [owned |-> StrAll(o.owned), result |-> InList(Str(game_id), StrAll(o.owned)),
          requested |-> TRUE]
  ELSE [owned |-> ownedNow, result |-> TRUE, requested |-> TRUE]

\* the calls of does_user_own made so far on the handler, and the last one:
\* its argument, self.owned when it began, the outcome it met, its result
NewOwn ==
  [pc |-> "ready", calls |-> 0, requests |-> 0, game_id |-> GameId("str", "1"),
   cached |-> <<>>, outcome |-> NoUserDataRequest, requested |-> FALSE,
   result |-> TRUE]

DoesUserOwn(game_id, o) ==
  /\ own.pc = "ready"
  /\ own.calls < MaxCalls
  /\ o \in IF owned = <<>> THEN UserDataOutcomes ELSE {NoUserDataRequest}
  /\ LET r == DoesUserOwnOf(owned, game_id, o) IN
       /\ owned' = r.owned
       /\ own' = [own EXCEPT !.calls = @ + 1,
                             !.requests = IF r.requested THEN @ + 1 ELSE @,
                             !.game_id = game_id,
                             !.cached = owned,
                             !.outcome = o,
                             !.requested = r.requested,
                             !.result = r.result]
  /\ UNCHANGED <<linkVars, endpoints, working_on_ids, mgrVars, parseVars>>

InitOwn ==
  /\ call = [w \in {1} |-> IdleCall]
  /\ ApiInit
  /\ mgr = MgrUnused
  /\ parse = ParseUnused
  /\ own = NewOwn

NextOwn ==
  \E game_id \in GameIds, o \in UserDataOutcomes \cup {NoUserDataRequest} :
    DoesUserOwn(game_id, o)

SpecOwn == InitOwn /\ [][NextOwn]_vars

----------------------------------------------------------------------------
(* Properties of does_user_own, checked under SpecOwn *)

\* the last call had an owned list to decide on: the cached one, or the one
\* of the user data it fetched
OwnedListObtained ==
  \/ own.cached # <<>>
  \/ /\ own.outcome.kind = "data"
     /\ own.outcome.has_owned
     /\ own.outcome.iterable

ObtainedList == IF own.cached # <<>> THEN own.cached ELSE own.outcome.owned

\* C17: does_user_own returns True whenever it cannot determine ownership
\* (nothing cached and the user data request fails, returns nothing, raises
\* or has no usable 'owned'), and returns False exactly when it had an owned
\* list in which no entry has the text of the game id.
C17_FailsOpen ==
  own.calls > 0 =>
    /\ ~OwnedListObtained => own.result = TRUE
    /\ own.result = FALSE <=>
         /\ OwnedListObtained
         /\ \A i \in DOMAIN ObtainedList : ObtainedList[i].s # own.game_id.s

C17_Witness ==
  /\ own.calls = 1
  /\ own.cached = <<>>
  /\ own.outcome = UserDataRaises
  /\ own.requested
  /\ own.result = TRUE
  /\ owned = <<>>

----------------------------------------------------------------------------
(* Two workers calling get_secure_link on one ApiHandler *)

Workers == {1, 2}

\* the arguments and the responses the two workers meet
ConcParams ==
  [product_id : {"1207658924"}, path : {""}, generation : {2},
   root : {None}, max_retries : 1..ConcMaxRetries]

ConcOutcomes ==
  {TransportError, Response(500, BodyGarbage), Response(HTTP_OK, BodyNoUrls),
   Response(HTTP_OK, BodyUrls(JList(<<"https://cdn.example/a">>)))}

InitConc ==
  /\ call = [w \in Workers |-> IdleCall]
  /\ ApiInit
  /\ mgr = MgrUnused
  /\ parse = ParseUnused
  /\ own = OwnUnused

NextConc ==
  \/ \E w \in Workers : \E p \in ConcParams : Call(w, p)
  \/ \E w \in Workers : GiveUp(w)
  \/ \E w \in Workers : \E o \in ConcOutcomes : Request(w, o)
  \/ \E w \in Workers : Backoff(w)

SpecConc == InitConc /\ [][NextConc]_vars

----------------------------------------------------------------------------
(* Properties of concurrent get_secure_link calls, checked under SpecConc *)

\* get_secure_link run alone from attempt k with max_retries N on the
\* responses h: the requests it issues, whether it has returned, and what
RECURSIVE RunAlone(_, _, _)
RunAlone(N, h, k) ==
  IF k >= N THEN [requests |-> 0, returned |-> TRUE, result |-> EmptyList]
  ELSE IF h = <<>> THEN [requests |-> 0, returned |-> FALSE, result |-> NoResult]
  ELSE IF IsSuccess(Head(h))
    THEN [requests |-> 1, returned |-> TRUE,
          result |-> IF Head(h).body.has_urls THEN Head(h).body.urls ELSE EmptyList]
  ELSE [RunAlone(N, Tail(h), k + 1) EXCEPT !.requests = @ + 1]

FailuresIn(h) == Cardinality({i \in DOMAIN h : Failed(h[i])})

\* C18: two interleaved get_secure_link calls on one ApiHandler write no
\* ApiHandler field; each call's attempt counter counts its own finished
\* backoffs only; each call's request count and returned value are those of
\* the same call run alone on the responses it received; and while one call
\* sleeps, a call standing at its entry can take its next step.
C18_NoSharedMutableState ==
  /\ owned = <<>> /\ endpoints = <<>> /\ working_on_ids = <<>>
  /\ \A w \in DOMAIN call :
       LET c == call[w]
           alone == RunAlone(c.params.max_retries, c.hist, 0)
       IN  c.pc # "idle" =>
             /\ c.attempt = Len(c.sleeps)
             /\ c.attempt = FailuresIn(c.hist) - (IF c.pc = "sleep" THEN 1 ELSE 0)
             /\ c.requests = alone.requests
             /\ alone.requests = Len(c.hist)
             /\ c.pc = "done" => alone.returned /\ c.result = alone.result
  /\ \A w, v \in DOMAIN call :
       call[w].pc = "sleep" /\ call[v].pc = "entry" =>
         ENABLED (GiveUp(v) \/ \E o \in ConcOutcomes : Request(v, o))

\* worker 1 sleeps after its first attempt while worker 2 stands at the entry
\* of its second
C18_Witness ==
  /\ call[1].pc = "sleep"
  /\ call[1].attempt = 0
  /\ call[2].pc = "entry"
  /\ call[2].attempt = 1
  /\ call[2].requests = 1

----------------------------------------------------------------------------
(* Success after failures, checked under SpecLink *)

\* C20: if attempts 0..k-1 of a get_secure_link call fail and attempt k gets
\* status 200 with a decodable body, then that response is the last one, the
\* call has issued k+1 requests and returned, it has slept exactly once after
\* each of the k failures (0.2 * 2^j after attempt j) and not after the
\* success, and it returns the 'urls' value of that response ([] when absent).
C20_StopsAtFirstSuccess ==
  \A w \in DOMAIN call :
    LET c == call[w] IN
      \A i \in DOMAIN c.hist :
        IsSuccess(c.hist[i]) =>
          /\ i = Len(c.hist)
          /\ i - 1 < c.params.max_retries
          /\ c.pc = "done"
          /\ c.requests = i
          /\ c.attempt = i - 1
          /\ Len(c.sleeps) = i - 1
          /\ \A j \in DOMAIN c.sleeps : c.sleeps[j] = BackoffBase * Pow2(j - 1)
          /\ c.sleep_time = 0
          /\ c.result = IF c.hist[i].body.has_urls THEN c.hist[i].body.urls
                        ELSE EmptyList

C20_Witness ==
  \E w \in DOMAIN call :
    /\ call[w].pc = "done"
    /\ Len(call[w].hist) = 3
    /\ IsSuccess(call[w].hist[3])
    /\ call[w].sleeps = <<2, 4>>
    /\ call[w].result = JList(<<"https://cdn.example/a">>)

----------------------------------------------------------------------------
(* Generation dispatch of AndroidManager.download, checked under SpecDispatch *)

\* download() ran on a platform other than linux and resolved a target build
DownloadResolved ==
  /\ mgr.command \in {"download", "repair", "update"}
  /\ mgr.platform # "linux"
  /\ Finished
  /\ mgr.has_target

\* target_build.get("generation", 2), as the statement of C21 words it
TargetGeneration ==
  IF mgr.target_build.has_generation THEN mgr.target_build.generation ELSE 2

----------------------------------------------------------------------------
(* A build id that matches no build, checked under SpecResolve *)

\* the first build of items with branch br, or otherwise
FirstWithBranch(items, br, otherwise) ==
  IF \E i \in DOMAIN items : items[i].branch = br
    THEN items[CHOOSE i \in DOMAIN items :
                 IsFirst(items, i, LAMBDA b : b.branch = br)]
    ELSE otherwise

\* what the method that ran chooses for the same list and branch selector
\* when no build id is given
ChoiceWithoutBuildId ==
  LET items == mgr.remote.items IN
    IF mgr.command = "info"
      THEN FirstWithBranch(items, mgr.branch,
                           FirstWithBranch(items, None, items[1]))
      ELSE FirstWithBranch(items, mgr.branch, items[1])

\* C22: when a build id is given and no build of a non-empty list has it,
\* resolution succeeds and the target is the build the same method chooses
\* for the same branch selector with no build id.
C22_UnmatchedBuildIdIsIgnored ==
  (/\ Finished
   /\ mgr.remote.ok
   /\ Len(mgr.remote.items) > 0
   /\ BuildIdGiven
   /\ ~HasBuildId(mgr.build)) =>
    /\ mgr.pc = "returned"
    /\ mgr.has_target
    /\ mgr.target_build = ChoiceWithoutBuildId

C22_Witness ==
  /\ mgr.command = "download"
  /\ mgr.pc = "returned"
  /\ mgr.remote.items = <<Build("A", None, 2), Build("B", "beta", 2), Build("C", "beta", 1)>>
  /\ mgr.branch = "beta"
  /\ mgr.build = "Z"
  /\ mgr.target_build = Build("B", "beta", 2)

----------------------------------------------------------------------------
(* Undecodable bodies and the type of the result, checked under SpecLink *)

\* C23: a 200 response whose body is no JSON object is a failed attempt like
\* any other: the call neither returns it nor raises, it sleeps the backoff
\* of that attempt's index, moves to the next attempt and, while attempts
\* remain, issues the request again; if it was the last attempt the call
\* returns the empty list of exhaustion.
C23_UndecodableBodyIsRetried ==
  \A w \in DOMAIN call :
    LET c == call[w] IN
      \A i \in DOMAIN c.hist :
        IsUndecodable(c.hist[i]) =>
          /\ c.pc \in {"sleep", "entry", "done"}
          /\ c.requests >= i
          /\ (i = Len(c.hist) /\ c.pc = "sleep") =>
               /\ c.attempt = i - 1
               /\ c.sleep_time = BackoffBase * Pow2(i - 1)
               /\ Len(c.sleeps) = i - 1
          /\ (i < Len(c.hist) \/ c.pc # "sleep") =>
               /\ c.attempt >= i
               /\ Len(c.sleeps) >= i
               /\ c.sleeps[i] = BackoffBase * Pow2(i - 1)
          /\ (i = Len(c.hist) /\ c.pc = "entry" /\ i < c.params.max_retries) =>
               ENABLED (\E o \in Outcomes : Request(w, o))
          /\ (i = Len(c.hist) /\ c.pc = "done") =>
               /\ i = c.params.max_retries
               /\ c.result = EmptyList

\* after a 200 response carrying a JSON array and its backoff, the second
\* request got its answer
C23_Witness ==
  \E w \in DOMAIN call :
    /\ Len(call[w].hist) = 2
    /\ call[w].hist[1] = Response(HTTP_OK, BodyArray)
    /\ IsSuccess(call[w].hist[2])
    /\ call[w].requests = 2
    /\ call[w].sleeps = <<2>>
    /\ call[w].pc = "done"

\* C24: whatever the responses, the value get_secure_link returns is a list;
\* a 200 body whose 'urls' is null yields the empty list.
C24_AlwaysReturnsList ==
  \A w \in DOMAIN call :
    call[w].pc = "done" => call[w].result.t = "list"

----------------------------------------------------------------------------
(* The owned cache over a sequence of calls, checked under SpecOwn *)

\* C25: in every does_user_own call the user-data request is issued exactly
\* when self.owned is empty at the call; with a non-empty self.owned the call
\* answers by membership in it and leaves it unchanged; a fetch whose 'owned'
\* list is empty leaves self.owned empty, so that the next call fetches again.
C25_FetchExactlyWhenCacheEmpty ==
  [][own'.calls = own.calls + 1 =>
       /\ owned = <<>> => own'.requests = own.requests + 1
       /\ owned # <<>> =>
            /\ own'.requests = own.requests
            /\ owned' = owned
            /\ own'.result = (\E i \in DOMAIN owned : owned[i].s = own'.game_id.s)
       /\ (owned = <<>> /\ own'.outcome = UserDataOwned(<<>>)) => owned' = <<>>
       /\ (owned = <<>> /\ own'.outcome.kind = "data" /\ own'.outcome.iterable
             /\ own'.outcome.owned # <<>>) =>
            /\ owned' # <<>>
            /\ Len(owned') = Len(own'.outcome.owned)
            /\ \A i \in DOMAIN owned' : owned'[i].s = own'.outcome.owned[i].s]_vars

\* three calls, two of which fetched; the third answered from the cache
C25_Witness ==
  /\ own.calls = 3
  /\ own.requests = 2
  /\ ~own.requested
  /\ own.cached # <<>>
  /\ owned = own.cached
  /\ own.result = FALSE

====
